---- MODULE Spec2Model ----
(***************************************************************************)
(* A model of the TOSA legalization helpers of                             *)
(* tensorflow/compiler/mlir/tosa/transforms/legalize_utils.cc.             *)
(*                                                                         *)
(* Every helper is a function of its arguments and of the caller's state   *)
(* it is handed by reference (the rewriter's list of created operations,   *)
(* the operation's diagnostics, an output attribute, an output vector).    *)
(* A behaviour is one call: Init draws the call (args) and the caller's    *)
(* state before it, and the action of the called helper runs its body.     *)
(*                                                                         *)
(* Numbers.  TLC's integers are 32 bits wide, while the code computes in   *)
(* double, int64_t and int32_t.  A value that may leave the 32-bit range   *)
(* (the result of llround, a 2^31-scaled sample) is kept as a pair of      *)
(* limbs [hi, lo] standing for hi * 2^16 + lo with lo in 0..65535, so      *)
(* that narrowing to int32_t and to int16_t is computed, not assumed.      *)
(* A double is kept as an exact integer multiple of a unit named where it  *)
(* is used.                                                                *)
(***************************************************************************)
EXTENDS Integers, Sequences, FiniteSets, TLC

VARIABLES pc, args, ops, diags, ret, explicit_padding, vec,
          upper_const, lower_const

vars == <<pc, args, ops, diags, ret, explicit_padding, vec,
          upper_const, lower_const>>

(***************************************************************************)
(* Arithmetic of the C++ types.                                            *)
(***************************************************************************)
TableSize == 513
Int16Min == -32768
Int16Max == 32767
Two16 == 65536
Int32Max == 2147483647
Int32Min == (-2147483647) - 1

Min(a, b) == IF a < b THEN a ELSE b
Max(a, b) == IF a > b THEN a ELSE b

\* std::llround / std::round of the quotient n / d (d > 0): to the nearest
\* integer, halfway cases away from zero.
RoundHalfAway(n, d) ==
  LET m == IF n >= 0 THEN n ELSE -n
      r == (m \div d) + (IF 2 * (m % d) >= d THEN 1 ELSE 0)
  IN  IF n >= 0 THEN r ELSE -r

\* C++ integer division of int64_t: the quotient truncated toward zero.
TruncDiv(a, b) ==
  IF (a >= 0) = (b > 0) \/ a = 0
    THEN (IF a >= 0 THEN a ELSE -a) \div (IF b > 0 THEN b ELSE -b)
    ELSE -((IF a >= 0 THEN a ELSE -a) \div (IF b > 0 THEN b ELSE -b))

\* The limbs of a value that fits TLC's integers.
Limbs(v) == [hi |-> v \div Two16, lo |-> v % Two16]

\* int16_t <- int32_t: the low 16 bits, read as signed.
ToInt16(v) == (((v % Two16) + 32768) % Two16) - 32768

\* int32_t <- int64_t (the initialisation of an int32_t from llround's
\* long long): the low 32 bits, read as signed.  The result fits TLC's
\* integers: its high limb is a signed 16-bit number.
NarrowToInt32(q) == ToInt16(q.hi) * Two16 + q.lo

\* std::min(std::max(v, -32768), 32767)
Clamp16(v) == Min(Max(v, Int16Min), Int16Max)

(***************************************************************************)
(* getTosaConst8bitTable.                                                  *)
(*                                                                         *)
(* Units: input_scale is a whole number of input units, so that the        *)
(* dequantized double is an integer; output_scale is the power of two      *)
(* 2^(-output_exp), so that transformed / output_scale is                  *)
(* transformed * 2^output_exp, exact in limbs.                             *)
(***************************************************************************)
Funcs8 == {"zero", "identity", "negate", "relu", "square", "ramp_1e6",
           "const_1e9", "const_neg1e9", "const_int32max"}

\* The caller's std::function<double(double)>, applied to x.
Func8(f, x) ==
  CASE f = "zero"           -> 0
    [] f = "identity"       -> x
    [] f = "negate"         -> -x
    [] f = "relu"           -> Max(x, 0)
    [] f = "square"         -> x * x
    [] f = "ramp_1e6"       -> x * 1000000
    [] f = "const_1e9"      -> 1000000000
    [] f = "const_neg1e9"   -> -1000000000
    [] f = "const_int32max" -> Int32Max

\* std::llround(transformed / output_scale) as a long long, in limbs, for
\* output_scale = 2^(-e), -4 <= e <= 16.
LLRoundQuotient(transformed, e) ==
  IF e < 0
    THEN Limbs(RoundHalfAway(transformed, 2 ^ (-e)))
    ELSE [hi |-> transformed \div (2 ^ (16 - e)),
          lo |-> (transformed % (2 ^ (16 - e))) * (2 ^ e)]

\* rescaled + output_zp overflows int.
AddOverflows(a, b) ==
  \/ b > 0 /\ a > Int32Max - b
  \/ b < 0 /\ a < Int32Min - b

\* rescaled + output_zp in int.  Signed overflow is undefined behaviour:
\* the build either wraps (ub = "wrap") or, having assumed the sum does not
\* overflow, keeps the sign of rescaled (ub = "sat").
AddInt32(a, b, ub) ==
  IF ~AddOverflows(a, b) THEN a + b
  ELSE IF ub = "wrap"
    THEN (IF b > 0 THEN (a + Int32Min) + (b + Int32Min)
                   ELSE (a - Int32Min) + (b - Int32Min))
    ELSE (IF b > 0 THEN Int32Max ELSE Int32Min)

\* The int32_t the code initialises from std::llround's long long.
Rescaled8(q) == NarrowToInt32(q)

\* One iteration of the loop: the value pushed for index i.
Entry8(a, i) ==
  LET dequantized == a.input_scale * (i - a.input_zp)
      transformed == Func8(a.func, dequantized)
      rescaled    == Rescaled8(LLRoundQuotient(transformed, a.output_exp))
      quantized   == AddInt32(rescaled, a.output_zp, a.ub)
  IN  ToInt16(Clamp16(quantized))

\* for (int32_t i = -256; i <= 256; i++) table_vec.push_back(...): the
\* pushes of the loop, in order.
Loop8(a) == [k \in 1..(256 - (-256) + 1) |-> Entry8(a, -256 + (k - 1))]

\* The tosa::ConstOp the three builders create: the declared shape and the
\* values handed to DenseElementsAttr::get.
ConstOp(shape, values) ==
  [name |-> "tosa.const", shape |-> shape, values |-> values]

\* An mlir::Value: the result of an operation, or null.
ResultOf(op) == [kind |-> "value", op |-> op]
NullValue == [kind |-> "null"]

\* What a call returned: nothing yet, a Value, a bool or an int.
NoReturn == [kind |-> "none"]
ReturnBool(b) == [kind |-> "bool", val |-> b]
ReturnInt(n) == [kind |-> "int", val |-> n]

Args8 ==
  [fn : {"getTosaConst8bitTable"}, input_scale : {1, 2},
   input_zp : {-128, 0, 3}, output_exp : {-1, 0, 4, 16},
   output_zp : {-128, 0, 5}, func : Funcs8, ub : {"wrap", "sat"}]

getTosaConst8bitTable ==
  /\ pc = "ready"
  /\ args.fn = "getTosaConst8bitTable"
  /\ LET table_vec == Loop8(args)
         const_op  == ConstOp(<<TableSize>>, table_vec)
     IN  /\ ops' = Append(ops, const_op)
         /\ ret' = ResultOf(const_op)
  /\ pc' = "done"
  /\ UNCHANGED <<args, diags, explicit_padding, vec, upper_const, lower_const>>


(***************************************************************************)
(* getTosaConst16bitTable.                                                 *)
(*                                                                         *)
(* Units: min and max are whole numbers with max - min a multiple of 1024, *)
(* so that step and half_step are whole; func(x) * 32768.0 is kept in      *)
(* quarters (Func16 returns four times it), so that the roundings of the   *)
(* code have halfway and non-halfway cases.  The sampled values stay far   *)
(* inside int32_t.                                                         *)
(***************************************************************************)
Funcs16 == {"zero", "linear", "quadratic", "cubic", "step", "kink",
            "sawtooth", "const_big", "const_half"}

\* 4 * func(x) * 32768.0 for the caller's std::function<double(double)>.
Func16(f, x) ==
  CASE f = "zero"       -> 0
    [] f = "linear"     -> 32 * x + 1
    [] f = "quadratic"  -> (x * x) \div 16
    [] f = "cubic"      -> (((x * x) \div 64) * x) \div 512
    [] f = "step"       -> IF x < 0 THEN -80000 ELSE 80000
    [] f = "kink"       -> 4000 * (IF x < 1025 THEN 1025 - x ELSE x - 1025)
    [] f = "sawtooth"   -> 4001 * (x % 3) - 4000
    [] f = "const_big"  -> 400000
    [] f = "const_half" -> 2

\* double step = (max - min) / 512.0f
Step16(a) == (a.max - a.min) \div 512

\* One iteration of the loop: the value pushed for index i.
Entry16(a, i) ==
  LET step       == Step16(a)
      half_step  == step \div 2
      sample_val == RoundHalfAway(Func16(a.func, a.min + i * step), 4)
      midpoint_interp_val ==
        RoundHalfAway(Func16(a.func, a.min + (i + 1) * step)
                      + 4 * RoundHalfAway(Func16(a.func, a.min + i * step), 4),
                      8)
      midpoint_val ==
        RoundHalfAway(Func16(a.func, a.min + i * step + half_step), 4)
      midpoint_err == midpoint_interp_val - midpoint_val
      bias == RoundHalfAway(midpoint_err, 2)
  IN  ToInt16(Clamp16(sample_val - bias))

\* The value pushed after the loop: func(max), rounded and clamped.
MaxEntry16(a) ==
  LET max_val == RoundHalfAway(Func16(a.func, a.max), 4)
  IN  ToInt16(Clamp16(max_val))

\* for (int32_t i = 0; i <= 512; i++) table_vec.push_back(...): the pushes
\* of the loop, in order.
Loop16(a) == [k \in 1..(512 - 0 + 1) |-> Entry16(a, 0 + (k - 1))]

\* table_vec when the constant is built: the loop's pushes, then the push
\* of the value at max.
Table16(a) == Loop16(a) \o <<MaxEntry16(a)>>

Args16 ==
  [fn : {"getTosaConst16bitTable"}, func : Funcs16,
   min : {-1024, 0}, max : {1024, 2048}]

getTosaConst16bitTable ==
  /\ pc = "ready"
  /\ args.fn = "getTosaConst16bitTable"
  /\ LET table_vec == Table16(args)
         const_op  == ConstOp(<<TableSize>>, table_vec)
     IN  /\ ops' = Append(ops, const_op)
         /\ ret' = ResultOf(const_op)
  /\ pc' = "done"
  /\ UNCHANGED <<args, diags, explicit_padding, vec, upper_const, lower_const>>


(***************************************************************************)
(* getTosaConst32bitTable.                                                 *)
(*                                                                         *)
(* Units: a transformed double t is kept as [hi, lo, half], standing for   *)
(* (hi * 2^16 + lo + half / 2) * 2^(-31) with lo in 0..65535 and half in   *)
(* {0, 1}: 1.0 is [32768, 0, 0] and -1.0 is [-32768, 0, 0].  The product   *)
(* with output_inv_scale = 2^31 is exact in double, and its rounding has   *)
(* a halfway case where half = 1.                                          *)
(***************************************************************************)
Funcs32 == {"zero", "const_plus_one", "const_minus_one", "const_two",
            "const_minus_two", "below_one", "above_minus_one",
            "minus_half_ulp", "ramp", "negramp"}

Fixed31(hi, lo, half) == [hi |-> hi, lo |-> lo, half |-> half]

\* The caller's std::function<double(double)>, applied to x.
Func32(f, x) ==
  CASE f = "zero"            -> Fixed31(0, 0, 0)
    [] f = "const_plus_one"  -> Fixed31(32768, 0, 0)
    [] f = "const_minus_one" -> Fixed31(-32768, 0, 0)
    [] f = "const_two"       -> Fixed31(65536, 0, 0)
    [] f = "const_minus_two" -> Fixed31(-65536, 0, 0)
    [] f = "below_one"       -> Fixed31(32767, 65535, 1)
    [] f = "above_minus_one" -> Fixed31(-32768, 0, 1)
    [] f = "minus_half_ulp"  -> Fixed31(-1, 65535, 1)
    [] f = "ramp"            -> Fixed31(100 * x, (x * 257) % Two16, x % 2)
    [] f = "negramp"         -> Fixed31(-128 * x, (x * 4099) % Two16, 0)

\* std::min(std::max(transformed, -1.0), 1.0)
Truncated32(t) ==
  IF t.hi > 32768 \/ (t.hi = 32768 /\ (t.lo > 0 \/ t.half = 1))
    THEN Fixed31(32768, 0, 0)
  ELSE IF t.hi < -32768 THEN Fixed31(-32768, 0, 0)
  ELSE t

\* static_cast<int64_t>(std::round(truncated * output_inv_scale)), in limbs.
\* A halfway case goes away from zero: up for a value >= 0, and to the
\* integer below for a value < 0.
Round32(t) ==
  IF t.half = 1 /\ t.hi >= 0
    THEN (IF t.lo = Two16 - 1 THEN [hi |-> t.hi + 1, lo |-> 0]
                              ELSE [hi |-> t.hi, lo |-> t.lo + 1])
    ELSE [hi |-> t.hi, lo |-> t.lo]

\* The loop body without the adjustment of 2^31.
StoreMax31_Dropped(r) == r

\* if (rescaled == 1L << 31) rescaled = (1L << 31) - 1
StoreMax31(r) ==
  IF r.hi = 32768 /\ r.lo = 0 THEN [hi |-> 32767, lo |-> Two16 - 1] ELSE r

\* rescaled, after the loop body's adjustment.
Rescaled32(a, i) ==
  LET dequantized == a.input_scale * (i - a.input_zp)
      transformed == Func32(a.func, dequantized)
      truncated   == Truncated32(transformed)
  IN  StoreMax31(Round32(truncated))

\* int32_t upper = (rescaled >> 16) & 0xFFFF
Upper32(r) == r.hi % Two16

\* int32_t lower = (rescaled & 0xFFFF) - 0x8000
Lower32(r) == r.lo - 32768

\* std::array<int16_t, 513> upper_table_array after the loop: element
\* i + 256 is assigned for i = -256 .. 256.
UpperTable32(a) ==
  [k \in 1..TableSize |-> ToInt16(Upper32(Rescaled32(a, (k - 1) - 256)))]

\* std::array<int16_t, 513> lower_table_array after the loop.
LowerTable32(a) ==
  [k \in 1..TableSize |-> ToInt16(Lower32(Rescaled32(a, (k - 1) - 256)))]

Args32 ==
  [fn : {"getTosaConst32bitTable"}, input_scale : {1, 2},
   input_zp : {-128, 0, 3}, func : Funcs32]

getTosaConst32bitTable ==
  /\ pc = "ready"
  /\ args.fn = "getTosaConst32bitTable"
  /\ LET upper_op == ConstOp(<<TableSize>>, UpperTable32(args))
         lower_op == ConstOp(<<TableSize>>, LowerTable32(args))
     IN  /\ ops' = ops \o <<upper_op, lower_op>>
         /\ upper_const' = ResultOf(upper_op)
         /\ lower_const' = ResultOf(lower_op)
  /\ pc' = "done"
  /\ UNCHANGED <<args, diags, ret, explicit_padding, vec>>


(***************************************************************************)
(* The padding translators.                                                *)
(***************************************************************************)
MaxInputSize == 4
MaxFilterSize == 3
MaxOutputSize == 4

\* An mlir::ArrayAttr: null (default-constructed), or holding values.
NullAttr == [null |-> TRUE, values |-> <<>>]
ArrayAttr(values) == [null |-> FALSE, values |-> values]

\* tensorflow::GetTensorSpatialDimIndex(4, format, i): the index, from 0,
\* of spatial dimension i of a 4-D tensor.
GetTensorSpatialDimIndex(format, i) ==
  IF format = "NHWC" THEN 1 + i ELSE 2 + i

\* RankedTensorType::getDimSize(d), d counted from 0.
getDimSize(shape, d) == shape[d + 1]

\* tensorflow::GetWindowedOutputSizeVerboseV2: the status and the outputs.
GetWindowedOutputSizeVerboseV2(input_size, filter_size, dilation_rate, stride, padding_type) ==
  IF stride <= 0 \/ dilation_rate < 1
    THEN [ok |-> FALSE, output_size |-> 0, padding_before |-> 0,
          padding_after |-> 0]
  ELSE
    LET effective_filter_size == (filter_size - 1) * dilation_rate + 1
        output_size ==
          IF padding_type = "VALID"
            THEN TruncDiv(input_size - effective_filter_size + stride, stride)
            ELSE TruncDiv(input_size + stride - 1, stride)
        padding_needed ==
          Max(0, (output_size - 1) * stride + effective_filter_size
                 - input_size)
        padding_before ==
          IF padding_type = "VALID" THEN 0 ELSE TruncDiv(padding_needed, 2)
        padding_after ==
          IF padding_type = "VALID" THEN 0
                                    ELSE padding_needed - padding_before
    IN  [ok |-> output_size >= 0, output_size |-> output_size,
         padding_before |-> padding_before, padding_after |-> padding_after]

\* The status of spatial dimension i (0 or 1) in getPaddingValuesFromPadType.
PadTypeStatus(a, i) ==
  LET ifm_dim      == GetTensorSpatialDimIndex(a.data_format_tf, i)
      filter_dim   == a.first_filter_spatial_dim + i
      dim_dilation == a.dilations[i + 1]
      dim_stride   == a.strides[i + 1]
  IN  GetWindowedOutputSizeVerboseV2(getDimSize(a.input_type, ifm_dim),
                                     getDimSize(a.filter_type, filter_dim),
                                     dim_dilation, dim_stride, a.tf_pad)

\* The pair of a dimension pushed in the order after, before.
PadTypePush_Swapped(status) == <<status.padding_after, status.padding_before>>

\* computed_paddings.push_back(pad_before); push_back(pad_after);
PadTypePush(status) == <<status.padding_before, status.padding_after>>

\* The loop over the two spatial dimensions, from dimension i on:
\* [ok, computed_paddings]; it stops at the first status that is not ok.
RECURSIVE PadTypeLoop(_, _, _)
PadTypeLoop(a, i, computed_paddings) ==
  IF i < 2
    THEN LET status == PadTypeStatus(a, i)
         IN  IF ~status.ok
               THEN [ok |-> FALSE, computed_paddings |-> computed_paddings]
               ELSE PadTypeLoop(a, i + 1,
                      computed_paddings \o PadTypePush(status))
    ELSE [ok |-> TRUE, computed_paddings |-> computed_paddings]

\* A 4-D shape with the spatial sizes h, w where the format puts them.
Shape4(format, h, w) ==
  IF format = "NHWC" THEN <<1, h, w, 3>> ELSE <<1, 3, h, w>>

\* A 4-D filter shape whose spatial sizes start at dimension first.
FilterShape4(first, h, w) ==
  IF first = 0 THEN <<h, w, 3, 8>> ELSE <<8, h, w, 3>>

Strides == {1, 2}
Dilations == {1, 2}

ArgsPadType ==
  { [fn |-> "getPaddingValuesFromPadType", tf_pad |-> p,
     data_format_tf |-> f, first_filter_spatial_dim |-> first,
     input_type |-> Shape4(f, ih, iw),
     filter_type |-> FilterShape4(first, fh, fw),
     strides |-> <<sh, sw>>, dilations |-> <<dh, dw>>] :
    p \in {"SAME", "VALID"}, f \in {"NHWC", "NCHW"}, first \in {0, 1},
    ih \in 1..MaxInputSize, iw \in 1..MaxInputSize,
    fh \in 1..MaxFilterSize, fw \in 1..MaxFilterSize,
    sh \in Strides, sw \in Strides, dh \in Dilations, dw \in Dilations }

\* The translator assigning what it has computed before it reports failure.
getPaddingValuesFromPadType_Partial ==
  /\ pc = "ready"
  /\ args.fn = "getPaddingValuesFromPadType"
  /\ LET loop == PadTypeLoop(args, 0, <<>>)
     IN  /\ explicit_padding' = ArrayAttr(loop.computed_paddings)
         /\ ret' = ReturnBool(loop.ok)
  /\ pc' = "done"
  /\ UNCHANGED <<args, ops, diags, vec, upper_const, lower_const>>

getPaddingValuesFromPadType ==
  /\ pc = "ready"
  /\ args.fn = "getPaddingValuesFromPadType"
  /\ LET loop == PadTypeLoop(args, 0, <<>>)
     IN  IF loop.ok
           THEN /\ explicit_padding' = ArrayAttr(loop.computed_paddings)
                /\ ret' = ReturnBool(TRUE)
           ELSE /\ explicit_padding' = explicit_padding
                /\ ret' = ReturnBool(FALSE)
  /\ pc' = "done"
  /\ UNCHANGED <<args, ops, diags, vec, upper_const, lower_const>>


\* MaxTransposeInputSize bounds the input sizes of the transposed
\* convolutions drawn.
MaxTransposeInputSize == 2

\* int total_padding of spatial dimension i (0 or 1), after
\* total_padding = total_padding > 0 ? total_padding : 0.
TransposeTotalPadding(a, i) ==
  LET ifm_dim      == GetTensorSpatialDimIndex(a.data_format_tf, i)
      ofm_dim      == GetTensorSpatialDimIndex(a.data_format_tf, i)
      filter_dim   == a.first_filter_spatial_dim + i
      ifm_size     == getDimSize(a.input_type, ifm_dim)
      filter_size  == getDimSize(a.filter_type, filter_dim)
      ofm_size     == getDimSize(a.output_type, ofm_dim)
      dim_dilation == a.dilations[i + 1]
      dim_stride   == a.strides[i + 1]
      effective_filter_size == (filter_size - 1) * dim_dilation + 1
      total_padding ==
        (ifm_size - 1) * dim_stride + effective_filter_size - ofm_size
  IN  IF total_padding > 0 THEN total_padding ELSE 0

\* An iteration that pushes pad_before and pad_after, as the regular
\* convolution's translator does.
TransposePush_Both(a, i) ==
  LET pad_before == TruncDiv(TransposeTotalPadding(a, i), 2)
  IN  <<pad_before, TransposeTotalPadding(a, i) - pad_before>>

\* What one iteration pushes: pad_before = total_padding / 2.
TransposePush(a, i) == <<TruncDiv(TransposeTotalPadding(a, i), 2)>>

\* for (int i = 0; i < 2; i++) { ...; computed_paddings.push_back(...) }
RECURSIVE TransposeLoop(_, _, _)
TransposeLoop(a, i, computed_paddings) ==
  IF i < 2
    THEN TransposeLoop(a, i + 1, computed_paddings \o TransposePush(a, i))
    ELSE computed_paddings

ArgsTransposeConv2d ==
  { [fn |-> "getTransposeConv2dPaddingValues", tf_pad |-> p,
     data_format_tf |-> f, first_filter_spatial_dim |-> 1,
     input_type |-> Shape4(f, ih, iw),
     filter_type |-> FilterShape4(1, fh, fw),
     output_type |-> Shape4(f, oh, ow),
     strides |-> <<sh, sw>>, dilations |-> <<dh, dw>>] :
    p \in {"SAME", "VALID"}, f \in {"NHWC", "NCHW"},
    ih \in 1..MaxTransposeInputSize, iw \in 1..MaxTransposeInputSize,
    fh \in 1..MaxFilterSize, fw \in 1..MaxFilterSize,
    oh \in 1..MaxOutputSize, ow \in 1..MaxOutputSize,
    sh \in Strides, sw \in Strides, dh \in Dilations, dw \in Dilations }

getTransposeConv2dPaddingValues ==
  /\ pc = "ready"
  /\ args.fn = "getTransposeConv2dPaddingValues"
  /\ explicit_padding' = ArrayAttr(TransposeLoop(args, 0, <<>>))
  /\ ret' = ReturnBool(TRUE)
  /\ pc' = "done"
  /\ UNCHANGED <<args, ops, diags, vec, upper_const, lower_const>>


(***************************************************************************)
(* buildRescaleOpConvOutput.                                               *)
(*                                                                         *)
(* Units: a scale (a double) is a whole number of scale units; the double  *)
(* (input_scale * weight_scale) / output_scale is kept as the fraction     *)
(* <<numerator, denominator>> in lowest terms.                             *)
(***************************************************************************)
MaxChannels == 3
MaxScales == 3

RECURSIVE GCD(_, _)
GCD(m, n) == IF n = 0 THEN m ELSE GCD(n, m % n)

\* (input_scale * weight_scale) / output_scale
OpScale(input_scale, weight_scale, output_scale) ==
  LET n == input_scale * weight_scale
      g == GCD(Max(n, output_scale), Min(n, output_scale))
  IN  <<n \div g, output_scale \div g>>

\* mlir::tosa::computeMultiplierAndShift(scale, multiplier, shift,
\* scale_width): the pair it stores, named by what it is computed from.
computeMultiplierAndShift(scale, scale_width) ==
  [multiplier |-> <<"multiplier", scale, scale_width>>,
   shift      |-> <<"shift", scale, scale_width>>]

\* isScale32(output_qtype)
isScale32(output_element_type) ==
  IF output_element_type.storage_width = 8 THEN TRUE ELSE FALSE

\* The tosa::RescaleOp created by rewriter.create.
RescaleOp(output_type, input_zp, output_zp, multiplier, shift, scale32, double_round, per_channel) ==
  [name |-> "tosa.rescale", output_type |-> output_type,
   input_zp |-> input_zp, output_zp |-> output_zp,
   multiplier |-> multiplier, shift |-> shift, scale32 |-> scale32,
   double_round |-> double_round, per_channel |-> per_channel]

\* uint32_t output_channels = output_type.getShape()[output_last_axis]
OutputChannels(a) == a.output_type.shape[Len(a.output_type.shape)]

\* The loop reads weight_scale_arr[oc] for every oc < output_channels: with
\* fewer scales than output channels it reads past the end of the vector.
ReadsPastEnd(a) ==
  /\ a.weight_type.kind = "UniformQuantizedPerAxisType"
  /\ OutputChannels(a) > Len(a.weight_type.scales)

\* weight_scale_arr[oc]; past the end, whatever the read produced.
WeightScaleAt(a, oc, past_end) ==
  IF oc < Len(a.weight_type.scales) THEN a.weight_type.scales[oc + 1]
                                    ELSE past_end

\* The indices oc at which the per-channel loop evaluated
\* weight_scale_arr[oc]: every oc below output_channels, or, when the call
\* stopped at the first read past the end, every oc up to that one.
ScaleIndicesRead(a, stopped) ==
  IF a.weight_type.kind # "UniformQuantizedPerAxisType" THEN {}
  ELSE IF stopped THEN 0..Len(a.weight_type.scales)
  ELSE 0..(OutputChannels(a) - 1)

\* One iteration of the per-channel loop: the pair pushed for channel oc.
ChannelPair(a, oc, past_end) ==
  LET scale_width      == IF isScale32(a.output_type) THEN 32 ELSE 16
      weight_scale     == WeightScaleAt(a, oc, past_end)
      op_channel_scale == OpScale(a.input_type.scale, weight_scale,
                                  a.output_type.scale)
  IN  computeMultiplierAndShift(op_channel_scale, scale_width)

\* for (uint32_t oc = 0; oc < output_channels; oc++) { ... push_back ... }
ChannelLoop(a, past_end) ==
  [k \in 1..OutputChannels(a) |-> ChannelPair(a, k - 1, past_end)]

\* What a branch of buildRescaleOpConvOutput did: the operations created,
\* the diagnostics emitted and the Value returned.
Outcome(created, emitted, returned) ==
  [created |-> created, emitted |-> emitted, ret |-> returned]

\* The branch for per-tensor quantized weights.
PerTensorBranch(a) ==
  LET scale32     == isScale32(a.output_type)
      scale_width == IF scale32 THEN 32 ELSE 16
      op_tensor_scale ==
        OpScale(a.input_type.scale, a.weight_type.scale, a.output_type.scale)
      pair == computeMultiplierAndShift(op_tensor_scale, scale_width)
      rescale_op ==
        RescaleOp(a.output_type, 0, a.output_type.zero_point,
                  <<pair.multiplier>>, <<pair.shift>>, scale32, TRUE, FALSE)
  IN  Outcome(<<rescale_op>>, <<>>, ResultOf(rescale_op))

\* The branch for per-channel quantized weights.
PerChannelBranch(a, past_end) ==
  LET scale32        == isScale32(a.output_type)
      pairs          == ChannelLoop(a, past_end)
      multiplier_arr == [k \in 1..Len(pairs) |-> pairs[k].multiplier]
      shift_arr      == [k \in 1..Len(pairs) |-> pairs[k].shift]
      rescale_op ==
        RescaleOp(a.output_type, 0, a.output_type.zero_point,
                  multiplier_arr, shift_arr, scale32, TRUE, TRUE)
  IN  Outcome(<<rescale_op>>, <<>>, ResultOf(rescale_op))

\* A rescale of an unknown weight type as if it were per-tensor with scale
\* 1: the last branch without its error return.
UnknownWeightBranch_NoError(a) ==
  PerTensorBranch([a EXCEPT !.weight_type =
                     [kind |-> "UniformQuantizedType", scale |-> 1]])

\* The last branch: op->emitOpError(...); return nullptr;
UnknownWeightBranch(a) ==
  Outcome(<<>>, <<"buildConvRescaleOp: unknown weight quantized type">>,
          NullValue)

\* The body of buildRescaleOpConvOutput.
ConvOutput(a, past_end) ==
  IF a.weight_type.kind = "UniformQuantizedType"
    THEN PerTensorBranch(a)
  ELSE IF a.weight_type.kind = "UniformQuantizedPerAxisType"
    THEN PerChannelBranch(a, past_end)
  ELSE UnknownWeightBranch(a)

Scales == {1, 2, 5}

RECURSIVE SeqsUpTo(_, _)
SeqsUpTo(S, n) ==
  IF n = 0 THEN {<<>>}
  ELSE LET shorter == SeqsUpTo(S, n - 1)
       IN  shorter \cup {Append(q, x) : q \in shorter, x \in S}

WeightTypes ==
  [kind : {"UniformQuantizedType"}, scale : Scales]
  \cup [kind : {"UniformQuantizedPerAxisType"},
        scales : SeqsUpTo(Scales, MaxScales)]
  \cup [kind : {"Float32Type", "CalibratedQuantizedType"}]

OutputTypes ==
  [shape : {<<c>> : c \in 0..MaxChannels}
           \cup {<<1, 2, 2, c>> : c \in 0..MaxChannels},
   scale : {1, 4}, zero_point : {-3, 0}, storage_width : {8, 16}]

ArgsConvOutput ==
  [fn : {"buildRescaleOpConvOutput"}, input_type : [scale : {1, 3}],
   weight_type : WeightTypes, output_type : OutputTypes]

\* What a read past the end of weight_scale_arr can do: stop the process
\* (the vector's bounds assertion) or produce some double.
PastEndOutcomes ==
  {[kind |-> "abort", value |-> 0]}
  \cup [kind : {"read"}, value : {0, 7}]

buildRescaleOpConvOutput ==
  /\ pc = "ready"
  /\ args.fn = "buildRescaleOpConvOutput"
  /\ \E u \in (IF ReadsPastEnd(args) THEN PastEndOutcomes
                                     ELSE {[kind |-> "read", value |-> 0]}) :
       IF u.kind = "abort"
         THEN /\ pc' = "aborted"
              /\ UNCHANGED <<ops, diags, ret>>
         ELSE LET r == ConvOutput(args, u.value)
              IN  /\ ops' = ops \o r.created
                  /\ diags' = diags \o r.emitted
                  /\ ret' = r.ret
                  /\ pc' = "done"
  /\ UNCHANGED <<args, explicit_padding, vec, upper_const, lower_const>>


(***************************************************************************)
(* getVectorFromValue32.                                                   *)
(***************************************************************************)
MaxElements == 3

\* A Value that no constant defines: a block argument, or the result of an
\* operation that is not a constant.
BlockArgument == [kind |-> "block_argument"]
AddOp == [name |-> "tfl.add", shape |-> <<3>>, values |-> <<>>]

\* matchPattern(val, m_Constant(&elems)): whether val is the result of a
\* constant operation.
matchConstant(val) == val.kind = "value" /\ val.op.name = "tosa.const"

\* for (auto idx : elems.getValues<IntegerAttr>()) { vec.push_back(...); i++; }
\* from element k on: the vector and the count.
RECURSIVE PushElements(_, _, _, _)
PushElements(elems, k, v, i) ==
  IF k <= Len(elems)
    THEN PushElements(elems, k + 1, Append(v, elems[k]), i + 1)
    ELSE [vec |-> v, i |-> i]

\* The body of getVectorFromValue32 on the caller's vector v: the vector
\* after the call and the int returned.
VectorFromValue32(val, v) ==
  IF ~matchConstant(val) THEN [vec |-> v, i |-> -1]
  ELSE PushElements(val.op.values, 1, v, 0)

ConstantValues ==
  {ResultOf(ConstOp(<<Len(e)>>, e)) : e \in SeqsUpTo({1, 2, 3}, MaxElements)}

ArgsVectorFromValue32 ==
  [fn : {"getVectorFromValue32"},
   val : ConstantValues \cup {ResultOf(AddOp), BlockArgument}]

getVectorFromValue32 ==
  /\ pc = "ready"
  /\ args.fn = "getVectorFromValue32"
  /\ LET r == VectorFromValue32(args.val, vec)
     IN  /\ vec' = r.vec
         /\ ret' = ReturnInt(r.i)
  /\ pc' = "done"
  /\ UNCHANGED <<args, ops, diags, explicit_padding, upper_const, lower_const>>

(***************************************************************************)
(* getUnquantizedBias.                                                     *)
(*                                                                         *)
(* A Value is the result of one operation: two operations with the same    *)
(* type and the same attribute are different Values.  An operation carries *)
(* an id: 0 for an operation of the caller's graph, and its position in    *)
(* ops for an operation the rewriter created.                              *)
(***************************************************************************)
MaxApplications == 2

\* The element types of a bias tensor.
QuantizedElement(width) == [kind |-> "quant", storage_width |-> width]
IntegerElement(width) == [kind |-> "int", storage_width |-> width]
FloatElement == [kind |-> "float", storage_width |-> 32]

\* RankedTensorType::get(shape, element)
TensorType(shape, element) ==
  [ranked |-> TRUE, shape |-> shape, element |-> element]

\* A tensor type of unknown rank: not a RankedTensorType.
UnrankedTensorType(element) ==
  [ranked |-> FALSE, shape |-> <<>>, element |-> element]

\* An operation with one result of the given type; value is the elements of
\* its value attribute (constants only).
TypedOp(name, id, type, value) ==
  [name |-> name, id |-> id, type |-> type, value |-> value]

\* A block argument of the given type: a Value with no defining operation.
TypedArgument(type) == [kind |-> "block_argument", type |-> type]

\* input.getType()
getType(input) == IF input.kind = "value" THEN input.op.type ELSE input.type

\* An ElementsAttr holding values; NullAttr stands for the null attribute.
ElementsAttr(values) == [null |-> FALSE, values |-> values]

\* getDefiningOpConstElementsAttr(input)
getDefiningOpConstElementsAttr(input) ==
  IF input.kind # "value" THEN NullAttr
  ELSE IF input.op.name = "tfl.pseudo_qconst" THEN ElementsAttr(input.op.value)
  ELSE IF input.op.name = "tosa.const" THEN ElementsAttr(input.op.value)
  ELSE NullAttr

\* The test that re-emits every constant, quantized or not.
ReemitsBias_AnyConstant(input) ==
  ~getDefiningOpConstElementsAttr(input).null

\* if (input_element_qtype && input_value_attr)
ReemitsBias(input) ==
  /\ getType(input).element.kind = "quant"
  /\ ~getDefiningOpConstElementsAttr(input).null

\* The body of getUnquantizedBias with created the operations created so
\* far: the operations it creates and the Value it returns.
UnquantizedBias(input, created) ==
  IF ReemitsBias(input)
    THEN LET input_type  == getType(input)
             output_type ==
               TensorType(input_type.shape,
                          IntegerElement(input_type.element.storage_width))
             const_op ==
               TypedOp("tosa.const", Len(created) + 1, output_type,
                       getDefiningOpConstElementsAttr(input).values)
         IN  [created |-> <<const_op>>, ret |-> ResultOf(const_op)]
    ELSE [created |-> <<>>, ret |-> input]

BiasTypes ==
  { TensorType(<<3>>, e) :
      e \in {QuantizedElement(8), QuantizedElement(32), IntegerElement(32),
             FloatElement} }

BiasAttrs == {<<1, 2, 3>>, <<0, 0, 0>>}

\* The bias values a caller passes: quantized constants, unquantized
\* constants, results of other operations (of ranked and of unranked type),
\* and block arguments.
BiasInputs ==
  { ResultOf(TypedOp("tfl.pseudo_qconst", 0, t, v)) :
      t \in {u \in BiasTypes : u.element.kind = "quant"}, v \in BiasAttrs }
  \cup { ResultOf(TypedOp("tosa.const", 0, t, v)) :
           t \in BiasTypes, v \in BiasAttrs }
  \cup { ResultOf(TypedOp("tfl.add", 0, t, <<>>)) : t \in BiasTypes }
  \cup { TypedArgument(t) : t \in BiasTypes }
  \cup { ResultOf(TypedOp("tfl.add", 0, UnrankedTensorType(e), <<>>)) :
           e \in {QuantizedElement(8), FloatElement} }

\* applied counts the applications already made to reach input.
ArgsUnquantizedBias ==
  [fn : {"getUnquantizedBias"}, input : BiasInputs, applied : {0}]

getUnquantizedBias ==
  /\ pc = "ready"
  /\ args.fn = "getUnquantizedBias"
  /\ IF ~getType(args.input).ranked
       \* assert(input_type && "bias input is not a RankedTensorType"); with
       \* the assertion compiled out the null type is dereferenced.
       THEN /\ pc' = "aborted"
            /\ UNCHANGED <<ops, ret>>
       ELSE LET r == UnquantizedBias(args.input, ops)
            IN  /\ ops' = ops \o r.created
                /\ ret' = r.ret
                /\ pc' = "done"
  /\ UNCHANGED <<args, diags, explicit_padding, vec, upper_const, lower_const>>

\* The caller hands the Value returned to getUnquantizedBias again.
applyToResult ==
  /\ pc = "done"
  /\ args.fn = "getUnquantizedBias"
  /\ args.applied + 1 < MaxApplications
  /\ args' = [args EXCEPT !.input = ret, !.applied = @ + 1]
  /\ pc' = "ready"
  /\ UNCHANGED <<ops, diags, ret, explicit_padding, vec, upper_const,
                 lower_const>>

(***************************************************************************)
(* The specification: one call of one helper, from any caller's state.     *)
(***************************************************************************)
Calls ==
  Args8 \cup Args16 \cup Args32 \cup ArgsPadType \cup ArgsTransposeConv2d
  \cup ArgsConvOutput \cup ArgsVectorFromValue32 \cup ArgsUnquantizedBias

\* The caller's explicit_padding before the call: not yet set, or set by
\* an earlier call.
PaddingsBefore == {NullAttr, ArrayAttr(<<9, 9, 9, 9>>)}

\* The caller's vector before the call: fresh, or already holding values.
VectorsBefore == {<<>>, <<7>>}

Init ==
  /\ pc = "ready"
  /\ args \in Calls
  /\ ops = <<>>
  /\ diags = <<>>
  /\ ret = NoReturn
  /\ explicit_padding \in
       (IF args.fn \in {"getPaddingValuesFromPadType",
                        "getTransposeConv2dPaddingValues"}
          THEN PaddingsBefore ELSE {NullAttr})
  /\ vec \in (IF args.fn = "getVectorFromValue32" THEN VectorsBefore
                                                  ELSE {<<>>})
  /\ upper_const = NullValue
  /\ lower_const = NullValue

Next ==
  \/ getTosaConst8bitTable
  \/ getTosaConst16bitTable
  \/ getTosaConst32bitTable
  \/ getPaddingValuesFromPadType
  \/ getTransposeConv2dPaddingValues
  \/ buildRescaleOpConvOutput
  \/ getVectorFromValue32
  \/ getUnquantizedBias
  \/ applyToResult

Spec == Init /\ [][Next]_vars


(***************************************************************************)
(* The claims.                                                             *)
(***************************************************************************)
Returned(fn) == pc = "done" /\ args.fn = fn

\* The number of values a constant holds equals its declared shape {513}.
Holds513(value) ==
  /\ value.kind = "value"
  /\ value.op.shape = <<TableSize>>
  /\ Len(value.op.values) = TableSize

\* C1, as claimed: every table emitted by the three lookup-table builders
\* (the 8-bit table, the 16-bit table, and the upper and the lower table of
\* the 32-bit builder) holds exactly 513 entries, the declared shape {513}.
C1_EveryTableHolds513 ==
  /\ Returned("getTosaConst8bitTable") => Holds513(ret)
  /\ Returned("getTosaConst16bitTable") => Holds513(ret)
  /\ Returned("getTosaConst32bitTable") =>
       Holds513(upper_const) /\ Holds513(lower_const)

\* clamp(round(func(input_scale * (i - input_zp)) / output_scale)
\*       + output_zp, -32768, 32767) in unbounded integers, for an
\* output_zp of 16 bits: a rounded quotient of 2^16 or more saturates high,
\* one below -2^16 saturates low, and any other is added and clamped.
Expected8(a, i) ==
  LET q == LLRoundQuotient(Func8(a.func, a.input_scale * (i - a.input_zp)),
                           a.output_exp)
  IN  IF q.hi > 0 THEN Int16Max
      ELSE IF q.hi < -1 THEN Int16Min
      ELSE Clamp16(q.hi * Two16 + q.lo + a.output_zp)

\* C2, as claimed: in the 8-bit table, for every i in -256..256 the stored
\* entry equals the requantized sample clamped in unbounded integers: an
\* out-of-range sample is stored as the saturated bound of its sign, never
\* as a wrapped value.
C2_Entry8SaturatesUnbounded ==
  Returned("getTosaConst8bitTable") =>
    \A i \in -256..256 :
      /\ i + 257 \in DOMAIN ret.op.values
      /\ ret.op.values[i + 257] = Expected8(args, i)

\* The 32-bit value reassembled from the pair at index k of the tables:
\* upper * 2^16 + (lower + 0x8000).  Both tables store int16_t, so the
\* value fits 32 bits.
Reassembled32(k) ==
  upper_const.op.values[k] * Two16 + (lower_const.op.values[k] + 32768)

\* The sample at index k, scaled by 2^31, is at most -2^31 + 1/2: it rounds
\* (after the truncation to [-1.0, 1.0]) to -2^31.
RoundsToMinus2p31(a, k) ==
  LET t == Func32(a.func, a.input_scale * ((k - 257) - a.input_zp))
  IN  t.hi < -32768 \/ (t.hi = -32768 /\ t.lo = 0)

\* C3, as claimed: for every sampled function value and every index, the
\* 32-bit value reassembled from the pair of the 32-bit tables never
\* exceeds 2^31 - 1 in magnitude.
C3_MagnitudeAtMostInt32Max ==
  Returned("getTosaConst32bitTable") =>
    \A k \in 1..TableSize :
      /\ Reassembled32(k) <= Int32Max
      /\ Reassembled32(k) >= -Int32Max

\* C3, amended: the reassembled value lies in the signed 32-bit range
\* [-2^31, 2^31 - 1]; it never exceeds 2^31 - 1, and it is -2^31 (of
\* magnitude 2^31) exactly for the samples that round to -2^31, such as the
\* constant -1.0.
C3_WithinInt32 ==
  Returned("getTosaConst32bitTable") =>
    \A k \in 1..TableSize :
      /\ Reassembled32(k) <= Int32Max
      /\ Reassembled32(k) >= Int32Min
      /\ (Reassembled32(k) = Int32Min) <=> RoundsToMinus2p31(args, k)

\* C3, witness: the constant +1.0 was sampled, and every pair reassembles
\* to 2^31 - 1.
C3_PlusOneStored ==
  /\ Returned("getTosaConst32bitTable")
  /\ args.func = "const_plus_one"
  /\ \A k \in 1..TableSize : Reassembled32(k) = Int32Max

\* C4, as claimed: the 16-bit table has 513 entries of which the last, at
\* index 512, is clamp(round(func(max) * 32768)) with no bias correction,
\* and the entries 0..511 are the bias-corrected samples at min + i * step.
C4_LastEntryIsFuncAtMax ==
  Returned("getTosaConst16bitTable") =>
    /\ Len(ret.op.values) = TableSize
    /\ ret.op.values[TableSize]
         = Clamp16(RoundHalfAway(Func16(args.func, args.max), 4))
    /\ \A i \in 0..511 : ret.op.values[i + 1] = Entry16(args, i)

\* The size at spatial dimension i (0 or 1) of a 4-D shape.
SpatialSize(shape, format, i) ==
  IF format = "NHWC" THEN shape[2 + i] ELSE shape[3 + i]

\* floor(total_padding / 2) of a transposed convolution's dimension i.
ExpectedTransposePad(a, i) ==
  LET input_size  == SpatialSize(a.input_type, a.data_format_tf, i)
      output_size == SpatialSize(a.output_type, a.data_format_tf, i)
      filter_size == a.filter_type[a.first_filter_spatial_dim + i + 1]
      total == (input_size - 1) * a.strides[i + 1]
               + (filter_size - 1) * a.dilations[i + 1] + 1 - output_size
  IN  (IF total > 0 THEN total ELSE 0) \div 2

\* C5: getTransposeConv2dPaddingValues always succeeds and emits exactly 2
\* values, one per spatial dimension, each floor(total_padding / 2) with
\* total_padding = max(0, (input_size - 1) * stride
\* + (filter_size - 1) * dilation + 1 - output_size); pad_after is never
\* emitted.
C5_TransposeEmitsPadBefore ==
  Returned("getTransposeConv2dPaddingValues") =>
    /\ ret = ReturnBool(TRUE)
    /\ ~explicit_padding.null
    /\ Len(explicit_padding.values) = 2
    /\ \A i \in 0..1 :
         explicit_padding.values[i + 1] = ExpectedTransposePad(args, i)

\* C5, witness: input 2, filter 3, stride 2, output 4, dilation 1 in the
\* first dimension (total padding 1, pad_before 0), and input 2, filter 3,
\* stride 2, output 1, dilation 2 in the second (total padding 6,
\* pad_before 3).
C5_ExampleTranslated ==
  /\ Returned("getTransposeConv2dPaddingValues")
  /\ args.input_type = <<1, 2, 2, 3>>
  /\ args.data_format_tf = "NHWC"
  /\ args.filter_type = <<8, 3, 3, 3>>
  /\ args.output_type = <<1, 4, 1, 3>>
  /\ args.strides = <<2, 2>>
  /\ args.dilations = <<1, 2>>
  /\ explicit_padding = ArrayAttr(<<0, 3>>)


\* The multiplier/shift pair of channel k (from 1) of a per-channel weight
\* type, from (input_scale * weight_scale[k]) / output_scale.
ExpectedChannelPair(a, k) ==
  computeMultiplierAndShift(
    OpScale(a.input_type.scale, a.weight_type.scales[k], a.output_type.scale),
    IF a.output_type.storage_width = 8 THEN 32 ELSE 16)

\* C6, as claimed: with per-channel weight quantization the emitted rescale
\* carries exactly C multiplier entries and C shift entries, C the size of
\* the trailing dimension of the output shape; entry k is computed from
\* (input_scale * weight_scale[k]) / output_scale, and the per-channel flag
\* is true.  With per-tensor weights exactly one pair is emitted and the
\* flag is false.
C6_OnePairPerOutputChannel ==
  /\ pc # "ready" /\ args.fn = "buildRescaleOpConvOutput"
       /\ args.weight_type.kind = "UniformQuantizedPerAxisType" =>
       LET C == args.output_type.shape[Len(args.output_type.shape)]
       IN  /\ ret.kind = "value"
           /\ ret.op.name = "tosa.rescale"
           /\ ret.op.per_channel
           /\ Len(ret.op.multiplier) = C
           /\ Len(ret.op.shift) = C
           /\ \A k \in 1..C :
                /\ k <= Len(args.weight_type.scales)
                /\ ret.op.multiplier[k]
                     = ExpectedChannelPair(args, k).multiplier
                /\ ret.op.shift[k] = ExpectedChannelPair(args, k).shift
  /\ pc # "ready" /\ args.fn = "buildRescaleOpConvOutput"
       /\ args.weight_type.kind = "UniformQuantizedType" =>
       /\ ret.kind = "value"
       /\ Len(ret.op.multiplier) = 1
       /\ Len(ret.op.shift) = 1
       /\ ~ret.op.per_channel

\* The weight element type is neither per-tensor nor per-channel
\* uniform-quantized.
UnknownWeightType(a) ==
  /\ a.fn = "buildRescaleOpConvOutput"
  /\ a.weight_type.kind
       \notin {"UniformQuantizedType", "UniformQuantizedPerAxisType"}

\* C7: when the weight element type is neither per-tensor nor per-channel
\* uniform-quantized, the call reports an error through the operation's
\* diagnostics, returns a null value and creates no operation: the created
\* operations are those before the call.
C7_UnknownWeightTypeIsReported ==
  [][pc = "ready" /\ UnknownWeightType(args) =>
       /\ pc' = "done"
       /\ ret' = NullValue
       /\ ops' = ops
       /\ Len(diags') = Len(diags) + 1]_vars

\* C7, witness: a call with float weights has returned null, with one
\* diagnostic and no operation.
C7_FloatWeightsRejected ==
  /\ Returned("buildRescaleOpConvOutput")
  /\ args.weight_type.kind = "Float32Type"
  /\ ret = NullValue
  /\ Len(diags) = 1
  /\ ops = <<>>

\* The windowed-output-size computation of spatial dimension i is
\* infeasible.
Infeasible(a, i) == ~PadTypeStatus(a, i).ok

\* C8: getPaddingValuesFromPadType returns false and leaves the caller's
\* explicit_padding as it was whenever the windowed-output-size computation
\* is infeasible for either spatial dimension; it assigns explicit_padding
\* only when it returns true.
C8_InfeasibleLeavesPaddingUntouched ==
  [][pc = "ready" /\ args.fn = "getPaddingValuesFromPadType" =>
       /\ (Infeasible(args, 0) \/ Infeasible(args, 1)) =>
            ret' = ReturnBool(FALSE) /\ explicit_padding' = explicit_padding
       /\ explicit_padding' # explicit_padding => ret' = ReturnBool(TRUE)]_vars

\* C8, witness: the first dimension was feasible and the second was not;
\* the call returned false and the padding set before it is still there.
C8_SecondDimensionFailed ==
  /\ Returned("getPaddingValuesFromPadType")
  /\ ~Infeasible(args, 0)
  /\ Infeasible(args, 1)
  /\ ret = ReturnBool(FALSE)
  /\ explicit_padding = ArrayAttr(<<9, 9, 9, 9>>)

\* ceil(a / b) for a >= 0 and b > 0.
CeilDiv(a, b) == CHOOSE q \in 0..a : q * b >= a /\ (q - 1) * b < a

\* <<pad_before, pad_after>> of dimension i by the TensorFlow formula.
ExpectedPadPair(a, i) ==
  LET input  == SpatialSize(a.input_type, a.data_format_tf, i)
      filter == a.filter_type[a.first_filter_spatial_dim + i + 1]
      stride == a.strides[i + 1]
      total  == Max(0, (CeilDiv(input, stride) - 1) * stride
                       + (filter - 1) * a.dilations[i + 1] + 1 - input)
  IN  IF a.tf_pad = "VALID" THEN <<0, 0>>
      ELSE <<total \div 2, total - (total \div 2)>>

\* C9: on success getPaddingValuesFromPadType emits exactly 4 values,
\* (pad_before, pad_after) of the first spatial dimension and then of the
\* second, each pair by the TensorFlow windowed-output formula of its own
\* dimension: (0, 0) for VALID; for SAME a pair summing to
\* max(0, (ceil(input / stride) - 1) * stride + (filter - 1) * dilation + 1
\* - input) with pad_before = floor(total / 2).
C9_PadTypeEmitsBeforeAfterPairs ==
  Returned("getPaddingValuesFromPadType") /\ ret = ReturnBool(TRUE) =>
    /\ ~explicit_padding.null
    /\ explicit_padding.values
         = ExpectedPadPair(args, 0) \o ExpectedPadPair(args, 1)

\* C9, witness: input 4, filter 3, stride 1, dilation 1 with SAME in the
\* first dimension gives (1, 1); input 4, filter 2 in the second gives
\* (0, 1).
C9_SameExampleTranslated ==
  /\ Returned("getPaddingValuesFromPadType")
  /\ args.tf_pad = "SAME"
  /\ args.data_format_tf = "NHWC"
  /\ args.input_type = <<1, 4, 4, 3>>
  /\ args.filter_type = <<3, 2, 3, 8>>
  /\ args.strides = <<1, 1>>
  /\ args.dilations = <<1, 1>>
  /\ ret = ReturnBool(TRUE)
  /\ explicit_padding = ArrayAttr(<<1, 1, 0, 1>>)

\* C10, as claimed: getVectorFromValue32 on a value that is not a constant
\* returns -1 and does not modify the caller's vector; on a constant with n
\* integer elements it returns n, and after the call the caller's vector
\* holds exactly the constant's elements in order, its length the returned
\* count.
C10_VectorIsTheConstant ==
  [][pc = "ready" /\ args.fn = "getVectorFromValue32" =>
       IF args.val.kind = "value" /\ args.val.op.name = "tosa.const"
         THEN /\ ret' = ReturnInt(Len(args.val.op.values))
              /\ vec' = args.val.op.values
              /\ Len(vec') = ret'.val
         ELSE /\ ret' = ReturnInt(-1)
              /\ vec' = vec]_vars


\* C11: getUnquantizedBias is idempotent: for every input value (quantized
\* constant, unquantized constant, or not a constant), applying it to its
\* own result returns that result unchanged and creates no new constant;
\* in particular every application to an already-unquantized constant
\* returns the identical input value.
C11_BiasIsIdempotent ==
  [][pc = "ready" /\ args.fn = "getUnquantizedBias" =>
       /\ args.applied >= 1 => ret' = args.input /\ ops' = ops
       /\ (args.input.kind = "value" /\ args.input.op.name = "tosa.const"
           /\ args.input.op.type.element.kind # "quant") =>
            ret' = args.input /\ ops' = ops]_vars

\* C11, witness: a quantized constant was re-emitted by the first
\* application, and the second returned the re-emitted constant itself,
\* the one operation created.
C11_AppliedTwiceToQuantizedConstant ==
  /\ Returned("getUnquantizedBias")
  /\ args.applied = 1
  /\ args.input.kind = "value"
  /\ args.input.op.name = "tosa.const"
  /\ args.input.op.id = 1
  /\ args.input.op.type.element = IntegerElement(8)
  /\ ret = args.input
  /\ Len(ops) = 1


\* C12, as claimed: in the per-channel branch of buildRescaleOpConvOutput
\* every index oc used to read a weight scale satisfies
\* 0 <= oc < (number of scales carried by the weight type), for every
\* weight type and output shape: the loop bound taken from the trailing
\* dimension of the output never drives a read past the end of the
\* weight-scale sequence.
C12_ScaleIndexWithinScales ==
  pc # "ready" /\ args.fn = "buildRescaleOpConvOutput" =>
    \A oc \in ScaleIndicesRead(args, pc = "aborted") :
      0 <= oc /\ oc < Len(args.weight_type.scales)


====
